---- MODULE Spec2Model ----
(***************************************************************************)
(* Model of daily_revenue_report.py and update_ecom_dashboard.py: the      *)
(* order aggregation and classification functions, get_date_ranges, the    *)
(* Shopify retry and pagination layer, and update_daily_revenue.           *)
(*                                                                         *)
(* Python values are represented as follows.                               *)
(*   str      a sequence of one-character strings                          *)
(*   None     the one-element sequence PyNone (no str equals it)           *)
(*   dict     a record; a key the dict lacks is a field the record lacks   *)
(*   Decimal  [c |-> coefficient, e |-> exponent], value c * 10^e          *)
(*   a call   [raised |-> BOOLEAN, val |-> returned value]                 *)
(* The variables hold the arguments of a call (orders, item, n), the name   *)
(* of the function called (call) and its outcome (ret).                     *)
(***************************************************************************)
EXTENDS Integers, Sequences, FiniteSets, TLC

VARIABLES orders, item, n, call, ret

\* The clock read by get_date_ranges and the reference date given to it.
VARIABLES now_et, reference_date

argVars == <<orders, item, n>>

clockVars == <<now_et, reference_date>>

\* What the aggregation and classification functions never touch.
\* The Shopify server, the position in fetch_all_orders and the locals of it
\* and of the shopify_get or shopify_get_url call in progress.
VARIABLES server, pc, url, attempt, sent, slept, resp, all_orders, page

httpVars == <<server, pc, url, attempt, sent, slept, resp, all_orders, page>>

\* The rows of the Daily Revenue Tracker worksheet and the number of runs of
\* the dashboard update so far.
VARIABLES ws, runs

sheetVars == <<ws, runs>>

worldVars == <<clockVars, httpVars, sheetVars>>

vars == <<orders, item, n, call, ret, worldVars>>

(***************************************************************************)
(* Bounds of the model.                                                    *)
(***************************************************************************)
\* Orders in a list given to sum_revenue.
MaxOrders == 3
\* Orders in a list given to monthly_revenue.
MaxDated == 2
\* Line items, over all orders, given to top_products and
\* count_units_by_category.
MaxLines == 3
\* Largest n given to top_products; the smallest is -1.
MaxN == 2
\* Pages of orders the server holds for one query.
MaxPages == 2
\* Runs of the dashboard update, one after the other.
MaxRuns == 3

(***************************************************************************)
(* Python built-ins.                                                       *)
(***************************************************************************)
PyNone == <<"None-object">>

\* A value that is neither a str nor None (a JSON number).
PyNumber == <<"number-object">>

Get(d, k, default) == IF k \in DOMAIN d THEN d[k] ELSE default

ToLower ==
  [A |-> "a", B |-> "b", C |-> "c", D |-> "d", E |-> "e", F |-> "f", G |-> "g",
   H |-> "h", I |-> "i", J |-> "j", K |-> "k", L |-> "l", M |-> "m", N |-> "n",
   O |-> "o", P |-> "p", Q |-> "q", R |-> "r", S |-> "s", T |-> "t", U |-> "u",
   V |-> "v", W |-> "w", X |-> "x", Y |-> "y", Z |-> "z"]

str_lower(s) ==
  [i \in 1..Len(s) |-> IF s[i] \in DOMAIN ToLower THEN ToLower[s[i]] ELSE s[i]]

RECURSIVE lstrip(_)
lstrip(s) == IF s # <<>> /\ Head(s) = " " THEN lstrip(Tail(s)) ELSE s

RECURSIVE rstrip(_)
rstrip(s) ==
  IF s # <<>> /\ s[Len(s)] = " " THEN rstrip(SubSeq(s, 1, Len(s) - 1)) ELSE s

str_strip(s) == rstrip(lstrip(s))

\* Python's `sub in s` for strings.
str_in(sub, s) ==
  \E i \in 0..(Len(s) - Len(sub)) : SubSeq(s, i + 1, i + Len(sub)) = sub

\* Python's s[lo:hi] for 0 <= lo <= hi: out-of-range bounds are clipped.
str_slice(s, lo, hi) ==
  SubSeq(s, lo + 1, IF hi < Len(s) THEN hi ELSE Len(s))

\* str(x): a str is itself, None prints as "None".
str(x) == IF x = PyNone THEN <<"N", "o", "n", "e">> ELSE x

\* x or "": None and the empty string both give "".
or_empty(x) == IF x = PyNone THEN <<>> ELSE x

Digits == {"0", "1", "2", "3", "4", "5", "6", "7", "8", "9"}

DigitVal ==
  [d \in Digits |->
     CASE d = "0" -> 0 [] d = "1" -> 1 [] d = "2" -> 2 [] d = "3" -> 3
       [] d = "4" -> 4 [] d = "5" -> 5 [] d = "6" -> 6 [] d = "7" -> 7
       [] d = "8" -> 8 [] d = "9" -> 9]

AllDigits(s) == \A i \in 1..Len(s) : s[i] \in Digits

RECURSIVE DigitsToNat(_)
DigitsToNat(s) ==
  IF s = <<>> THEN 0
  ELSE 10 * DigitsToNat(SubSeq(s, 1, Len(s) - 1)) + DigitVal[s[Len(s)]]

RECURSIVE Pow10(_)
Pow10(k) == IF k <= 0 THEN 1 ELSE 10 * Pow10(k - 1)

\* Index of the first "." of s, or 0.
PointAt(s) ==
  IF \E i \in 1..Len(s) : s[i] = "."
    THEN CHOOSE i \in 1..Len(s) : s[i] = "." /\ \A j \in 1..(i - 1) : s[j] # "."
    ELSE 0

\* int(s) for a str: surrounding whitespace, an optional sign, then digits;
\* anything else raises ValueError.
PyInt(s) ==
  LET t    == str_strip(s)
      sgn  == t # <<>> /\ Head(t) \in {"+", "-"}
      body == IF sgn THEN Tail(t) ELSE t
  IN  IF body # <<>> /\ AllDigits(body)
        THEN [raised |-> FALSE,
              val |-> IF sgn /\ Head(t) = "-" THEN 0 - DigitsToNat(body)
                      ELSE DigitsToNat(body)]
        ELSE [raised |-> TRUE, val |-> 0]

\* Decimal(s) for a str of the numeric-string grammar without exponent:
\* surrounding whitespace, an optional sign, digits with at most one point and
\* at least one digit; anything else raises InvalidOperation.  The coefficient
\* is the digits read as an integer, the exponent minus the number of fraction
\* digits.
Decimal(s) ==
  LET t    == str_strip(s)
      sgn  == t # <<>> /\ Head(t) \in {"+", "-"}
      body == IF sgn THEN Tail(t) ELSE t
      p    == PointAt(body)
      ip   == IF p = 0 THEN body ELSE SubSeq(body, 1, p - 1)
      fp   == IF p = 0 THEN <<>> ELSE SubSeq(body, p + 1, Len(body))
      mag  == DigitsToNat(ip \o fp)
  IN  IF AllDigits(ip) /\ AllDigits(fp) /\ ip \o fp # <<>>
        THEN [raised |-> FALSE,
              val |-> [c |-> IF sgn /\ Head(t) = "-" THEN 0 - mag ELSE mag,
                       e |-> 0 - Len(fp)]]
        ELSE [raised |-> TRUE, val |-> [c |-> 0, e |-> 0]]

\* Decimal addition: the exponent of the sum is the smaller exponent.
DecAdd(a, b) ==
  LET e == IF a.e < b.e THEN a.e ELSE b.e
  IN  [c |-> a.c * Pow10(a.e - e) + b.c * Pow10(b.e - e), e |-> e]

\* Decimal times int: the int converts to a Decimal of exponent 0.
DecMulInt(a, k) == [c |-> a.c * k, e |-> a.e]

\* Decimal("0.00")
DecZero2 == [c |-> 0, e |-> 0 - 2]

(***************************************************************************)
(* Configuration.                                                          *)
(***************************************************************************)
Vinyl == <<"V", "i", "n", "y", "l">>
Books == <<"B", "o", "o", "k", "s">>
Posters == <<"P", "o", "s", "t", "e", "r", "s">>
Tees == <<"T", "e", "e", "s">>

CATEGORIES == <<Vinyl, Books, Posters, Tees>>

CATEGORY_KEYWORDS ==
  << [keyword |-> <<"v", "i", "n", "y", "l">>, cat |-> Vinyl],
     [keyword |-> <<"r", "e", "c", "o", "r", "d">>, cat |-> Vinyl],
     [keyword |-> <<"l", "p">>, cat |-> Vinyl],
     [keyword |-> <<"b", "o", "o", "k">>, cat |-> Books],
     [keyword |-> <<"p", "o", "s", "t", "e", "r">>, cat |-> Posters],
     [keyword |-> <<"p", "r", "i", "n", "t">>, cat |-> Posters],
     [keyword |-> <<"t", "e", "e">>, cat |-> Tees],
     [keyword |-> <<"t", "-", "s", "h", "i", "r", "t">>, cat |-> Tees],
     [keyword |-> <<"s", "h", "i", "r", "t">>, cat |-> Tees] >>

(***************************************************************************)
(* sum_revenue                                                             *)
(***************************************************************************)
\* Mutant: total is assigned, not added to.
sum_revenue_step_assign(total, order) ==
  LET d == Decimal(str(Get(order, "total_price", <<"0">>)))
  IN  IF d.raised THEN total ELSE d.val

\* One iteration of the loop: the whole statement is inside the try, so a
\* raising Decimal leaves total as it was.
sum_revenue_step(total, order) ==
  LET d == Decimal(str(Get(order, "total_price", <<"0">>)))
  IN  IF d.raised THEN total ELSE DecAdd(total, d.val)

\* Mutant: the try encloses the loop, so the first raising Decimal ends it.
RECURSIVE sum_revenue_from_abort(_, _, _)
sum_revenue_from_abort(os, i, total) ==
  IF i > Len(os) THEN total
  ELSE IF Decimal(str(Get(os[i], "total_price", <<"0">>))).raised THEN total
  ELSE sum_revenue_from_abort(os, i + 1, sum_revenue_step(total, os[i]))

RECURSIVE sum_revenue_from(_, _, _)
sum_revenue_from(os, i, total) ==
  IF i > Len(os) THEN total
  ELSE sum_revenue_from(os, i + 1, sum_revenue_step(total, os[i]))

sum_revenue(os) == [raised |-> FALSE, val |-> sum_revenue_from(os, 1, DecZero2)]

(***************************************************************************)
(* classify_line_item                                                      *)
(***************************************************************************)
KeywordHits(s) ==
  {i \in 1..Len(CATEGORY_KEYWORDS) : str_in(CATEGORY_KEYWORDS[i].keyword, s)}

\* Mutant: the last matching keyword of the table decides.
first_keyword_last(s) ==
  LET hits == KeywordHits(s)
  IN  IF hits = {} THEN PyNone
      ELSE CATEGORY_KEYWORDS[CHOOSE i \in hits : \A j \in hits : i >= j].cat

\* for keyword, cat in CATEGORY_KEYWORDS.items(): if keyword in s: return cat
\* The dict iterates in insertion order; None when the loop falls through.
first_keyword(s) ==
  LET hits == KeywordHits(s)
  IN  IF hits = {} THEN PyNone
      ELSE CATEGORY_KEYWORDS[CHOOSE i \in hits : \A j \in hits : i <= j].cat

\* for cat in CATEGORIES: if product_type.lower() == cat.lower(): return cat
direct_match(product_type) ==
  LET hits == {i \in 1..Len(CATEGORIES) :
                 str_lower(product_type) = str_lower(CATEGORIES[i])}
  IN  IF hits = {} THEN PyNone
      ELSE CATEGORIES[CHOOSE i \in hits : \A j \in hits : i <= j]

\* item.get(key) or "", followed by a str method: a truthy value that is not
\* a str has no strip()/lower() and raises AttributeError.
IsStr(x) == x \notin {PyNone, PyNumber}

classify_line_item(it) ==
  LET pt_raw    == or_empty(Get(it, "product_type", PyNone))
      title_raw == or_empty(Get(it, "title", PyNone))
  IN  IF ~IsStr(pt_raw) THEN [raised |-> TRUE, val |-> PyNone]
      ELSE LET product_type == str_strip(pt_raw)
               pt_lower     == str_lower(product_type)
           IN  IF direct_match(product_type) # PyNone
                 THEN [raised |-> FALSE, val |-> direct_match(product_type)]
               ELSE IF first_keyword(pt_lower) # PyNone
                 THEN [raised |-> FALSE, val |-> first_keyword(pt_lower)]
               ELSE IF ~IsStr(title_raw)
                 THEN [raised |-> TRUE, val |-> PyNone]
               ELSE [raised |-> FALSE,
                     val |-> first_keyword(str_lower(title_raw))]

(***************************************************************************)
(* count_units_by_category                                                 *)
(***************************************************************************)
RECURSIVE line_items_of(_, _)
\* The line items in the order the nested loops visit them:
\* for order in orders: for item in order.get("line_items", []).
line_items_of(os, i) ==
  IF i > Len(os) THEN <<>>
  ELSE Get(os[i], "line_items", <<>>) \o line_items_of(os, i + 1)

CategorySet == {CATEGORIES[i] : i \in 1..Len(CATEGORIES)}

\* Mutant: an unclassified item is counted under the first category.
count_units_step_default(acc, it) ==
  LET cat == classify_line_item(it)
      key == IF cat.val = PyNone THEN CATEGORIES[1] ELSE cat.val
  IN  IF acc.raised THEN acc
      ELSE IF cat.raised THEN [raised |-> TRUE, val |-> acc.val]
      ELSE [raised |-> FALSE,
            val |-> [acc.val EXCEPT ![key] = @ + Get(it, "quantity", 0)]]

\* The loop body for one line item; acc is [raised, val] with val the counts.
count_units_step(acc, it) ==
  LET cat == classify_line_item(it)
  IN  IF acc.raised THEN acc
      ELSE IF cat.raised THEN [raised |-> TRUE, val |-> acc.val]
      ELSE IF cat.val = PyNone THEN acc
      ELSE [raised |-> FALSE,
            val |-> [acc.val EXCEPT ![cat.val] = @ + Get(it, "quantity", 0)]]

RECURSIVE count_units_from(_, _, _)
count_units_from(its, i, acc) ==
  IF i > Len(its) THEN acc
  ELSE count_units_from(its, i + 1, count_units_step(acc, its[i]))

\* Mutant: counts starts empty and a category is stored on its first item.
count_units_by_category_sparse(os) ==
  LET its  == line_items_of(os, 1)
      full == count_units_from(its, 1,
                [raised |-> FALSE, val |-> [cat \in CategorySet |-> 0]])
      hit  == {classify_line_item(its[i]).val : i \in 1..Len(its)} \ {PyNone}
  IN  [raised |-> full.raised, val |-> [cat \in hit |-> full.val[cat]]]

count_units_by_category(os) ==
  count_units_from(line_items_of(os, 1), 1,
                   [raised |-> FALSE, val |-> [cat \in CategorySet |-> 0]])

(***************************************************************************)
(* top_products                                                            *)
(***************************************************************************)
Unknown == <<"U", "n", "k", "n", "o", "w", "n">>
Other == <<"O", "t", "h", "e", "r">>

\* Mutant: the keys are compared without regard to case.
product_index_nocase(products, title) ==
  IF \E i \in 1..Len(products) : str_lower(products[i].title) = str_lower(title)
    THEN CHOOSE i \in 1..Len(products) :
           str_lower(products[i].title) = str_lower(title)
    ELSE 0

\* Position of the entry of key title in the insertion-ordered dict, or 0.
product_index(products, title) ==
  IF \E i \in 1..Len(products) : products[i].title = title
    THEN CHOOSE i \in 1..Len(products) : products[i].title = title
    ELSE 0

\* Mutant: every line item of a title stores its category again.
top_products_step_recategorise(acc, it) ==
  LET title == Get(it, "title", Unknown)
      price == Decimal(str(Get(it, "price", <<"0">>)))
      qty   == Get(it, "quantity", 0)
      cls   == classify_line_item(it)
      cat   == IF cls.val = PyNone THEN Other ELSE cls.val
      seen  == product_index(acc.val, title)
      prods == IF seen # 0 THEN acc.val
               ELSE Append(acc.val, [title |-> title, units |-> 0,
                                     revenue |-> DecZero2, category |-> cat])
      k     == product_index(prods, title)
  IN  IF acc.raised THEN acc
      ELSE IF price.raised \/ cls.raised THEN [raised |-> TRUE, val |-> acc.val]
      ELSE [raised |-> FALSE,
            val |-> [prods EXCEPT
                       ![k].units = @ + qty,
                       ![k].revenue = DecAdd(@, DecMulInt(price.val, qty)),
                       ![k].category = cat]]

\* The loop body for one line item; acc is [raised, val] with val the dict
\* products as the sequence of its values in insertion order.
top_products_step(acc, it) ==
  LET title == Get(it, "title", Unknown)
      price == Decimal(str(Get(it, "price", <<"0">>)))
      qty   == Get(it, "quantity", 0)
      cls   == classify_line_item(it)
      cat   == IF cls.val = PyNone THEN Other ELSE cls.val
      seen  == product_index(acc.val, title)
      prods == IF seen # 0 THEN acc.val
               ELSE Append(acc.val, [title |-> title, units |-> 0,
                                     revenue |-> DecZero2, category |-> cat])
      k     == product_index(prods, title)
  IN  IF acc.raised THEN acc
      ELSE IF price.raised \/ cls.raised THEN [raised |-> TRUE, val |-> acc.val]
      ELSE [raised |-> FALSE,
            val |-> [prods EXCEPT
                       ![k].units = @ + qty,
                       ![k].revenue = DecAdd(@, DecMulInt(price.val, qty))]]

RECURSIVE group_products(_, _, _)
group_products(its, i, acc) ==
  IF i > Len(its) THEN acc
  ELSE group_products(its, i + 1, top_products_step(acc, its[i]))

\* Mutant: p goes before the entries of equal units, which reverses ties.
sorted_insert_before_ties(ps, p) ==
  LET k == Cardinality({i \in 1..Len(ps) : ps[i].units > p.units})
  IN  SubSeq(ps, 1, k) \o <<p>> \o SubSeq(ps, k + 1, Len(ps))

\* Where a stable descending sort puts p among the already sorted ps: after
\* every entry of at least p's units.
sorted_insert(ps, p) ==
  LET k == Cardinality({i \in 1..Len(ps) : ps[i].units >= p.units})
  IN  SubSeq(ps, 1, k) \o <<p>> \o SubSeq(ps, k + 1, Len(ps))

RECURSIVE sorted_by_units(_, _, _)
\* sorted(products.values(), key=lambda p: p["units"], reverse=True)
sorted_by_units(ps, i, acc) ==
  IF i > Len(ps) THEN acc
  ELSE sorted_by_units(ps, i + 1, sorted_insert(acc, ps[i]))

\* Mutant: the slice keeps one entry more, s[:k + 1].
slice_to_inclusive(s, k) ==
  SubSeq(s, 1, IF k + 1 > Len(s) THEN Len(s) ELSE IF k + 1 < 0 THEN 0 ELSE k + 1)

\* s[:k], k of either sign.
slice_to(s, k) ==
  LET hi == IF k >= 0 THEN k ELSE Len(s) + k
  IN  SubSeq(s, 1, IF hi > Len(s) THEN Len(s) ELSE hi)

\* The loops and the sort: sorted_products, or the exception raised.
sorted_products(os) ==
  LET grouped == group_products(line_items_of(os, 1), 1,
                                [raised |-> FALSE, val |-> <<>>])
  IN  IF grouped.raised THEN [raised |-> TRUE, val |-> <<>>]
      ELSE [raised |-> FALSE, val |-> sorted_by_units(grouped.val, 1, <<>>)]

\* return sorted_products[:n]
top_n(sorted, k) ==
  IF sorted.raised THEN sorted
  ELSE [raised |-> FALSE, val |-> slice_to(sorted.val, k)]

top_products(os, k) == top_n(sorted_products(os), k)

(***************************************************************************)
(* monthly_revenue                                                         *)
(***************************************************************************)
\* by_month[month] of the defaultdict: reading a missing key stores the
\* default Decimal("0.00") under it.
touch(by_month, month) ==
  IF month \in DOMAIN by_month THEN by_month
  ELSE [k \in DOMAIN by_month \cup {month} |->
          IF k = month THEN DecZero2 ELSE by_month[k]]

\* One iteration of the loop.  The try covers the whole body: a created_at
\* that is None (not subscriptable), or whose characters 5:7 int() rejects,
\* leaves by_month untouched.  In  by_month[month] += Decimal(...)  the
\* subscript is read, and the key stored, before the Decimal is built, so a
\* raising Decimal leaves the key with its default.
monthly_revenue_step(by_month, order) ==
  LET created == Get(order, "created_at", <<>>)
      month   == PyInt(str_slice(created, 5, 7))
      price   == Decimal(str(Get(order, "total_price", <<"0">>)))
  IN  IF created = PyNone \/ month.raised THEN by_month
      ELSE IF price.raised THEN touch(by_month, month.val)
      ELSE [touch(by_month, month.val) EXCEPT
              ![month.val] = DecAdd(@, price.val)]

RECURSIVE monthly_revenue_from(_, _, _)
monthly_revenue_from(os, i, by_month) ==
  IF i > Len(os) THEN by_month
  ELSE monthly_revenue_from(os, i + 1, monthly_revenue_step(by_month, os[i]))

monthly_revenue(os) ==
  [raised |-> FALSE, val |-> monthly_revenue_from(os, 1, <<>>)]

(***************************************************************************)
(* Inputs.                                                                 *)
(***************************************************************************)
NoItem == [id |-> <<"0">>]
NoRet == [raised |-> FALSE, val |-> <<>>]

\* total_price values: the three of the spec's scenario, one of another
\* exponent, a negative one, JSON null; and the order without the key.
PriceMenu ==
  { <<"1", "0", ".", "0", "0">>, <<"i", "n", "v", "a", "l", "i", "d">>,
    <<"5", ".", "5", "0">>, <<"0", ".", "5">>, <<"-", "3">>, PyNone }

PricedOrders ==
  {[total_price |-> p] : p \in PriceMenu} \cup {[id |-> <<"1">>]}

\* created_at values: two well-formed dates (January, December), months 13
\* and 00, a string without digits at 5:7, a string shorter than 6, JSON
\* null; and the order without the key.
CreatedMenu ==
  { <<"2", "0", "2", "4", "-", "0", "1", "-", "1", "5">>,
    <<"2", "0", "2", "4", "-", "1", "2", "-", "3", "1">>,
    <<"2", "0", "2", "4", "-", "1", "3", "-", "0", "1">>,
    <<"2", "0", "2", "4", "-", "0", "0", "-", "1", "0">>,
    <<"y", "e", "s", "t", "e", "r", "d", "a", "y">>,
    <<"n", "/", "a">>,
    PyNone }

DatedPriceMenu ==
  { <<"1", "0", ".", "0", "0">>, <<"i", "n", "v", "a", "l", "i", "d">>,
    <<"0", ".", "5">> }

DatedOrders ==
  {[created_at |-> d, total_price |-> p] : d \in CreatedMenu, p \in DatedPriceMenu}
    \cup {[total_price |-> p] : p \in DatedPriceMenu}
    \cup {[created_at |-> <<"2", "0", "2", "4", "-", "1", "2", "-", "3", "1">>]}

\* product_type and title values of line items to classify.
LP == <<"L", "P">>
Bag == <<"B", "a", "g">>
ArtPrint == <<"A", "r", "t", " ", "P", "r", "i", "n", "t">>

ProductTypeMenu ==
  { <<>>, PyNone, PyNumber, Books, <<" ", "v", "i", "n", "y", "l", " ">>,
    <<"T", "E", "E", "S">>, ArtPrint, <<"B", "o", "o", "k", " ", "L", "P">>,
    <<"T", "-", "S", "h", "i", "r", "t">>, Bag }

TitleMenu ==
  { <<>>, PyNone, PyNumber,
    <<"A", "b", "b", "e", "y", " ", "R", "o", "a", "d", " ", "L", "P">>,
    <<"T", "o", "t", "e", " ", "B", "a", "g">>,
    <<"P", "r", "i", "n", "t", " ", "T", "e", "e">>,
    <<"R", "e", "c", "o", "r", "d", " ", "B", "o", "o", "k">>, Posters }

ClassifyInputs ==
  {[product_type |-> pt, title |-> t] : pt \in ProductTypeMenu, t \in TitleMenu}
    \cup {[title |-> t] : t \in TitleMenu}
    \cup {[product_type |-> pt] : pt \in ProductTypeMenu}

\* Line items to aggregate: two titles in two quantities at "20.00" with no
\* product_type, the first title again as "Books" at "5.5"; then a title
\* differing in case only, an item with product_type alone, an unclassified
\* item of quantity 0, and an item with an unparsable price.
LineItemMenu ==
  {[title |-> t, price |-> <<"2", "0", ".", "0", "0">>, quantity |-> q] :
     t \in {LP, Bag}, q \in {1, 2}}
    \cup { [title |-> LP, product_type |-> Books, price |-> <<"5", ".", "5">>,
            quantity |-> 2],
           [title |-> <<"l", "p">>, price |-> <<"2", "0", ".", "0", "0">>,
            quantity |-> 1],
           [product_type |-> ArtPrint],
           [title |-> Bag, price |-> <<"2", "0", ".", "0", "0">>, quantity |-> 0],
           [title |-> LP, price |-> <<"i", "n", "v", "a", "l", "i", "d">>,
            quantity |-> 1] }

\* The line items its as a list of two orders: the first c in one order, the
\* rest in a second one, which lacks the line_items key when none is left.
\* The inputs are the empty list and, for every sequence of line items, the
\* split in the middle and the split at the end.
SplitOrders(its, c) ==
  << [line_items |-> SubSeq(its, 1, c)] >>
    \o (IF c = Len(its) THEN << [id |-> <<"2">>] >>
        ELSE << [line_items |-> SubSeq(its, c + 1, Len(its))] >>)

(***************************************************************************)
(* datetime: a record of year, month, day, hour, minute, second and        *)
(* microsecond. Arithmetic on an aware datetime is wall-clock arithmetic.  *)
(***************************************************************************)
\* None where a datetime is expected: a record with none of its fields.
NoDatetime == [none |-> TRUE]

IsLeap(y) == y % 4 = 0 /\ (y % 100 # 0 \/ y % 400 = 0)

DaysInMonth(y, m) ==
  IF m = 2 THEN (IF IsLeap(y) THEN 29 ELSE 28)
  ELSE IF m \in {4, 6, 9, 11} THEN 30 ELSE 31

\* dt.replace(hour=0, minute=0, second=0, microsecond=0)
replace_time_zero(dt) ==
  [dt EXCEPT !.hour = 0, !.minute = 0, !.second = 0, !.microsecond = 0]

\* dt.replace(month=m, day=1): day 1 exists in every month.
replace_month_day1(dt, m) == [dt EXCEPT !.month = m, !.day = 1]

\* Mutant: a day the new year lacks is moved to the last day of the month.
replace_year_clamped(dt, y) ==
  [raised |-> FALSE,
   val |-> [dt EXCEPT !.year = y,
                      !.day = IF dt.day > DaysInMonth(y, dt.month)
                                THEN DaysInMonth(y, dt.month) ELSE dt.day]]

\* dt.replace(year=y): ValueError when the month of year y has no such day.
replace_year(dt, y) ==
  IF dt.day > DaysInMonth(y, dt.month)
    THEN [raised |-> TRUE, val |-> PyNone]
    ELSE [raised |-> FALSE, val |-> [dt EXCEPT !.year = y]]

\* dt - timedelta(days=1)
minus_day(dt) ==
  IF dt.day > 1 THEN [dt EXCEPT !.day = dt.day - 1]
  ELSE IF dt.month > 1
    THEN [dt EXCEPT !.month = dt.month - 1,
                    !.day = DaysInMonth(dt.year, dt.month - 1)]
    ELSE [dt EXCEPT !.year = dt.year - 1, !.month = 12, !.day = 31]

\* dt - timedelta(days=k)
RECURSIVE minus_days(_, _)
minus_days(dt, k) == IF k = 0 THEN dt ELSE minus_days(minus_day(dt), k - 1)

\* dt - timedelta(seconds=1)
minus_second(dt) ==
  IF dt.second > 0 THEN [dt EXCEPT !.second = dt.second - 1]
  ELSE IF dt.minute > 0
    THEN [dt EXCEPT !.minute = dt.minute - 1, !.second = 59]
  ELSE IF dt.hour > 0
    THEN [dt EXCEPT !.hour = dt.hour - 1, !.minute = 59, !.second = 59]
    ELSE [minus_day(dt) EXCEPT !.hour = 23, !.minute = 59, !.second = 59]

\* date.toordinal(): days since 0001-01-01, which is day 1.
RECURSIVE DaysBeforeMonth(_, _)
DaysBeforeMonth(y, m) ==
  IF m = 1 THEN 0 ELSE DaysBeforeMonth(y, m - 1) + DaysInMonth(y, m - 1)

toordinal(dt) ==
  LET y == dt.year - 1
  IN  y * 365 + (y \div 4) - (y \div 100) + (y \div 400)
        + DaysBeforeMonth(dt.year, dt.month) + dt.day

\* date.weekday(): Monday is 0.
weekday(dt) == (toordinal(dt) + 6) % 7

DigitChar == <<"0", "1", "2", "3", "4", "5", "6", "7", "8", "9">>

\* A natural number in decimal, without padding.
RECURSIVE NatToStr(_)
NatToStr(k) ==
  IF k < 10 THEN <<DigitChar[k + 1]>>
  ELSE NatToStr(k \div 10) \o <<DigitChar[(k % 10) + 1]>>

\* Zero-padded to w digits.
RECURSIVE Padded(_, _)
Padded(k, w) ==
  IF w = 0 THEN <<>> ELSE Padded(k \div 10, w - 1) \o <<DigitChar[(k % 10) + 1]>>

DayNames ==
  << <<"M", "o", "n", "d", "a", "y">>,
     <<"T", "u", "e", "s", "d", "a", "y">>,
     <<"W", "e", "d", "n", "e", "s", "d", "a", "y">>,
     <<"T", "h", "u", "r", "s", "d", "a", "y">>,
     <<"F", "r", "i", "d", "a", "y">>,
     <<"S", "a", "t", "u", "r", "d", "a", "y">>,
     <<"S", "u", "n", "d", "a", "y">> >>

MonthNames ==
  << <<"J", "a", "n", "u", "a", "r", "y">>,
     <<"F", "e", "b", "r", "u", "a", "r", "y">>,
     <<"M", "a", "r", "c", "h">>,
     <<"A", "p", "r", "i", "l">>,
     <<"M", "a", "y">>,
     <<"J", "u", "n", "e">>,
     <<"J", "u", "l", "y">>,
     <<"A", "u", "g", "u", "s", "t">>,
     <<"S", "e", "p", "t", "e", "m", "b", "e", "r">>,
     <<"O", "c", "t", "o", "b", "e", "r">>,
     <<"N", "o", "v", "e", "m", "b", "e", "r">>,
     <<"D", "e", "c", "e", "m", "b", "e", "r">> >>

\* dt.strftime("%Y-%m-%d")
strftime_Ymd(dt) ==
  Padded(dt.year, 4) \o <<"-">> \o Padded(dt.month, 2) \o <<"-">>
    \o Padded(dt.day, 2)

\* dt.strftime("%A, %B %-d")
strftime_label(dt) ==
  DayNames[weekday(dt) + 1] \o <<",", " ">> \o MonthNames[dt.month]
    \o <<" ">> \o NatToStr(dt.day)

(***************************************************************************)
(* get_date_ranges                                                         *)
(***************************************************************************)
q_start_month(month) ==
  IF month <= 3 THEN 1
  ELSE IF month <= 6 THEN 4
  ELSE IF month <= 9 THEN 7
  ELSE 10

\* daily_revenue_report.get_date_ranges(reference_date)
get_date_ranges(reference, now) ==
  LET today_et        == replace_time_zero(IF reference = NoDatetime THEN now
                                                  ELSE reference)
      yesterday_start == minus_day(today_et)
      yesterday_end   == minus_second(today_et)
      qtd_start       == replace_month_day1(today_et,
                                            q_start_month(today_et.month))
      qtd_end         == yesterday_end
      prior_qtd_start == replace_year(qtd_start, qtd_start.year - 1)
      prior_qtd_end   == replace_year(yesterday_end, yesterday_end.year - 1)
  IN  IF prior_qtd_start.raised \/ prior_qtd_end.raised
        THEN [raised |-> TRUE, val |-> <<>>]
        ELSE [raised |-> FALSE,
              val |-> [yesterday_start |-> yesterday_start,
                       yesterday_end   |-> yesterday_end,
                       qtd_start       |-> qtd_start,
                       qtd_end         |-> qtd_end,
                       prior_qtd_start |-> prior_qtd_start.val,
                       prior_qtd_end   |-> prior_qtd_end.val,
                       yesterday_label |-> strftime_label(yesterday_start)]]

\* update_ecom_dashboard.get_date_ranges()
get_date_ranges_dashboard(now) ==
  LET today                 == replace_time_zero(now)
      yesterday_start       == minus_day(today)
      yesterday_end         == minus_second(today)
      seven_days_start      == minus_days(today, 7)
      thirty_days_start     == minus_days(today, 30)
      qtd_start             == replace_month_day1(today,
                                                  q_start_month(today.month))
      qtd_end               == yesterday_end
      prior_yesterday_start == replace_year(yesterday_start,
                                            yesterday_start.year - 1)
      prior_yesterday_end   == replace_year(yesterday_end,
                                            yesterday_end.year - 1)
  IN  IF prior_yesterday_start.raised \/ prior_yesterday_end.raised
        THEN [raised |-> TRUE, val |-> <<>>]
        ELSE [raised |-> FALSE,
              val |-> [yesterday_start       |-> yesterday_start,
                       yesterday_end         |-> yesterday_end,
                       yesterday_date        |-> strftime_Ymd(yesterday_start),
                       seven_days_start      |-> seven_days_start,
                       thirty_days_start     |-> thirty_days_start,
                       window_end            |-> yesterday_end,
                       qtd_start             |-> qtd_start,
                       qtd_end               |-> qtd_end,
                       prior_yesterday_start |-> prior_yesterday_start.val,
                       prior_yesterday_end   |-> prior_yesterday_end.val]]

(***************************************************************************)
(* The HTTP layer: shopify_get, shopify_get_url, parse_link_header and     *)
(* fetch_all_orders. Durations are in milliseconds.                        *)
(***************************************************************************)
MAX_RETRIES == 5

\* 0.5 seconds
RATE_LIMIT_DELAY == 500

\* None where a response is expected.
NoResponse == [none |-> TRUE]

RECURSIVE Pow2(_)
Pow2(k) == IF k <= 0 THEN 1 ELSE 2 * Pow2(k - 1)

\* float(x) of a str holding seconds, in milliseconds: ValueError unless the
\* text is a decimal number.
float_ms(x) ==
  LET d == Decimal(x)
  IN  IF d.raised THEN [raised |-> TRUE, val |-> 0]
      ELSE [raised |-> FALSE, val |-> (d.val.c * Pow10(d.val.e + 3)) \div Pow10(0 - (d.val.e + 3))]

\* float(resp.headers.get("Retry-After", 2 ** attempt))
retry_after(r, a) ==
  IF "Retry-After" \in DOMAIN r.headers
    THEN float_ms(r.headers["Retry-After"])
    ELSE [raised |-> FALSE, val |-> 1000 * Pow2(a)]

\* s.split(sep) for a one-character sep.
RECURSIVE str_split(_, _)
str_split(s, sep) ==
  IF \A i \in 1..Len(s) : s[i] # sep THEN <<s>>
  ELSE LET i == CHOOSE j \in 1..Len(s) :
                  s[j] = sep /\ \A h \in 1..(j - 1) : s[h] # sep
       IN  <<SubSeq(s, 1, i - 1)>> \o str_split(SubSeq(s, i + 1, Len(s)), sep)

\* s.strip(cs): leading and trailing characters of cs removed.
RECURSIVE strip_chars(_, _)
strip_chars(s, cs) ==
  IF s # <<>> /\ Head(s) \in cs THEN strip_chars(Tail(s), cs)
  ELSE IF s # <<>> /\ s[Len(s)] \in cs
    THEN strip_chars(SubSeq(s, 1, Len(s) - 1), cs)
    ELSE s

RelNext == <<"r", "e", "l", "=", "\"", "n", "e", "x", "t", "\"">>

\* Mutant: the link of the first part is taken, whatever its rel.
parse_link_header_first(r) ==
  LET link == Get(r.headers, "Link", <<>>)
  IN  IF link = <<>> THEN PyNone
      ELSE strip_chars(str_strip(Head(str_split(Head(str_split(link, ",")), ";"))),
                       {"<", ">"})

parse_link_header(r) ==
  LET link  == Get(r.headers, "Link", <<>>)
      parts == str_split(link, ",")
      hits  == {i \in 1..Len(parts) : str_in(RelNext, parts[i])}
  IN  IF hits = {} THEN PyNone
      ELSE LET part == parts[CHOOSE i \in hits : \A j \in hits : i <= j]
           IN  strip_chars(str_strip(Head(str_split(part, ";"))), {"<", ">"})

BASE_URL == <<"h", "t", "t", "p", "s", ":", "/", "/", "s", "h", "o", "p", "/", "a", "p", "i">>

\* f"{BASE_URL}/{endpoint}.json"
endpoint_url(endpoint) ==
  BASE_URL \o <<"/">> \o endpoint \o <<".", "j", "s", "o", "n">>

OrdersEndpoint == <<"o", "r", "d", "e", "r", "s">>

(***************************************************************************)
(* The server: the pages of one query, each a JSON body, linked by cursor  *)
(* URLs in the Link header.                                                *)
(***************************************************************************)
PageUrl(i) ==
  IF i = 1 THEN endpoint_url(OrdersEndpoint)
  ELSE endpoint_url(OrdersEndpoint) \o <<"?", "p", "a", "g", "e", "_", "i", "n", "f", "o", "=">> \o NatToStr(i)

LinkTo(i, rel) ==
  <<"<">> \o PageUrl(i) \o <<">", ";", " ", "r", "e", "l", "=", "\"">> \o rel
    \o <<"\"">>

RelPrevious == <<"p", "r", "e", "v", "i", "o", "u", "s">>

\* The Link header of page i of srv, or <<>> when the page has none. A server
\* that sends full headers names the previous page before the next one.
LinkHeader(srv, i) ==
  LET last == i = Len(srv.pages)
      prev == srv.full /\ i > 1
  IN  IF prev /\ ~last
        THEN LinkTo(i - 1, RelPrevious) \o <<",", " ">> \o LinkTo(i + 1, <<"n", "e", "x", "t">>)
      ELSE IF prev THEN LinkTo(i - 1, RelPrevious)
      ELSE IF ~last THEN LinkTo(i + 1, <<"n", "e", "x", "t">>)
      ELSE <<>>

ContentType == "Content-Type" :> <<"j", "s", "o", "n">>

\* The 200 response to a GET of page i.
PageResponse(srv, i) ==
  [status_code |-> 200,
   headers |-> IF LinkHeader(srv, i) = <<>> THEN ContentType
               ELSE ContentType @@ ("Link" :> LinkHeader(srv, i)),
   json |-> srv.pages[i]]

\* The pages a URL names: at most one.
PagesAt(srv, u) == {i \in 1..Len(srv.pages) : PageUrl(i) = u}

\* Retry-After of a 429: absent, seconds, or an HTTP date.
RetryAfterMenu == {<<>>, <<"2", ".", "0">>, <<"W", "e", "d", ",", " ", "2", "1", " ", "O", "c", "t", " ", "2", "0", "2", "6", " ", "0", "7", ":", "2", "8", ":", "0", "0", " ", "G", "M", "T">>}

TooManyRequests(ra) ==
  [status_code |-> 429,
   headers |-> IF ra = <<>> THEN ContentType
               ELSE ContentType @@ ("Retry-After" :> ra),
   json |-> [errors |-> <<>>]]

PageBodyMenu ==
  { [orders |-> << [id |-> <<"1">>, total_price |-> <<"1", "0", ".", "0", "0">>] >>],
    [orders |-> << [id |-> <<"2">>, total_price |-> <<"5", ".", "5", "0">>],
                   [id |-> <<"3">>] >>],
    [errors |-> <<>>] }

(***************************************************************************)
(* shopify_get and shopify_get_url: one action for each way an iteration   *)
(* of the retry loop ends. pc names the function whose loop is running.    *)
(***************************************************************************)
InRetryLoop == pc \in {"shopify_get", "shopify_get_url"} /\ attempt < MAX_RETRIES

\* The call returns r (a response or None) to fetch_all_orders.
Returns(r) ==
  /\ pc' = "returned"
  /\ resp' = [raised |-> FALSE, val |-> r]

\* The loop goes on with the next attempt, or ends with `return None`.
NextAttempt ==
  /\ attempt' = attempt + 1
  /\ IF attempt + 1 < MAX_RETRIES THEN UNCHANGED <<pc, resp>>
     ELSE Returns(NoResponse)

\* status 429: sleep Retry-After, continue. A ValueError of float() is not a
\* RequestException and leaves the call.
Attempt429 ==
  /\ InRetryLoop
  /\ \E ra \in RetryAfterMenu :
       LET wait == retry_after(TooManyRequests(ra), attempt)
       IN  /\ sent' = sent + 1
           /\ IF wait.raised
                THEN /\ pc' = "returned"
                     /\ resp' = [raised |-> TRUE, val |-> NoResponse]
                     /\ UNCHANGED <<attempt, slept>>
                ELSE /\ slept' = Append(slept, [after |-> "429", wait |-> wait.val])
                     /\ NextAttempt
  /\ UNCHANGED <<server, url, all_orders, page, argVars, clockVars, sheetVars, call, ret>>

\* requests.get raises a RequestException, or raise_for_status does for a
\* status of 400 or more: sleep 2 ** attempt unless this was the last attempt.
AttemptError ==
  /\ InRetryLoop
  /\ sent' = sent + 1
  /\ IF attempt < MAX_RETRIES - 1
       THEN /\ slept' = Append(slept, [after |-> "error", wait |-> 1000 * Pow2(attempt)])
            /\ NextAttempt
       ELSE /\ Returns(NoResponse)
            /\ UNCHANGED <<attempt, slept>>
  /\ UNCHANGED <<server, url, all_orders, page, argVars, clockVars, sheetVars, call, ret>>

\* status 200 for a URL the server knows: sleep RATE_LIMIT_DELAY, return resp.
AttemptOk ==
  /\ InRetryLoop
  /\ \E i \in PagesAt(server, url) :
       /\ sent' = sent + 1
       /\ slept' = Append(slept, [after |-> "ok", wait |-> RATE_LIMIT_DELAY])
       /\ Returns(PageResponse(server, i))
  /\ UNCHANGED <<server, url, attempt, all_orders, page, argVars, clockVars, sheetVars, call, ret>>

(***************************************************************************)
(* fetch_all_orders                                                        *)
(***************************************************************************)
\* A call begins: shopify_get("orders", params) starts its loop.
CallFetchAllOrders ==
  /\ pc = "idle"
  /\ call' = "fetch_all_orders"
  /\ all_orders' = <<>>
  /\ page' = 1
  /\ url' = endpoint_url(OrdersEndpoint)
  /\ pc' = "shopify_get"
  /\ attempt' = 0
  /\ sent' = 0
  /\ slept' = <<>>
  /\ UNCHANGED <<server, resp, argVars, clockVars, sheetVars, ret>>

\* shopify_get or shopify_get_url has returned: the orders of the page are
\* added and the next link is followed, or the call ends.
ContinueFetch ==
  /\ pc = "returned"
  /\ IF resp.raised
       THEN /\ pc' = "done"
            /\ ret' = [raised |-> TRUE, val |-> <<>>]
            /\ UNCHANGED <<url, attempt, sent, slept, all_orders, page>>
     ELSE IF resp.val = NoResponse
       THEN /\ pc' = "done"
            /\ ret' = [raised |-> FALSE, val |-> all_orders]
            /\ UNCHANGED <<url, attempt, sent, slept, all_orders, page>>
     ELSE LET orders_  == Get(resp.val.json, "orders", <<>>)
              extended == all_orders \o orders_
              next_url == parse_link_header(resp.val)
          IN  /\ all_orders' = extended
              /\ IF next_url # PyNone /\ next_url # <<>>
                   THEN /\ page' = page + 1
                        /\ url' = next_url
                        /\ pc' = "shopify_get_url"
                        /\ attempt' = 0
                        /\ sent' = 0
                        /\ slept' = <<>>
                        /\ UNCHANGED ret
                   ELSE /\ pc' = "done"
                        /\ ret' = [raised |-> FALSE, val |-> extended]
                        /\ UNCHANGED <<url, attempt, sent, slept, page>>
  /\ UNCHANGED <<server, resp, argVars, clockVars, sheetVars, call>>

NoHttp ==
  /\ server = [pages |-> <<>>, full |-> FALSE]
  /\ pc = "idle"
  /\ url = <<>>
  /\ attempt = 0
  /\ sent = 0
  /\ slept = <<>>
  /\ resp = [raised |-> FALSE, val |-> NoResponse]
  /\ all_orders = <<>>
  /\ page = 0

(***************************************************************************)
(* The Daily Revenue Tracker worksheet and update_daily_revenue. A float   *)
(* is an exact fraction [num, den] in lowest terms.                        *)
(***************************************************************************)
RECURSIVE Gcd(_, _)
Gcd(a, b) == IF b = 0 THEN a ELSE Gcd(b, a % b)

Fraction(nm, dn) ==
  LET g == Gcd(IF nm < 0 THEN 0 - nm ELSE nm, dn)
  IN  [num |-> nm \div g, den |-> dn \div g]

\* float(d) of a Decimal
float_of(d) ==
  IF d.e >= 0 THEN Fraction(d.c * Pow10(d.e), 1)
  ELSE Fraction(d.c, Pow10(0 - d.e))

\* float((a - b) / b) for Decimals a and b > 0
yoy_change(a, b) ==
  LET x == float_of(a)
      y == float_of(b)
  IN  Fraction(x.num * y.den - y.num * x.den, x.den * y.num)

\* "" where a float is expected.
EmptyString == [empty |-> TRUE]

\* A cell entered as the user would type it (USER_ENTERED): text of the form
\* YYYY-MM-DD naming a day of the calendar becomes a date, other text stays.
user_entered(text) ==
  LET y == str_slice(text, 0, 4)
      m == str_slice(text, 5, 7)
      d == str_slice(text, 8, 10)
      shaped == /\ Len(text) = 10 /\ text[5] = "-" /\ text[8] = "-"
                /\ AllDigits(y) /\ AllDigits(m) /\ AllDigits(d)
  IN  IF /\ shaped
         /\ DigitsToNat(m) \in 1..12
         /\ DigitsToNat(d) \in 1..DaysInMonth(DigitsToNat(y), DigitsToNat(m))
        THEN [kind |-> "date", year |-> DigitsToNat(y),
              month |-> DigitsToNat(m), day |-> DigitsToNat(d)]
        ELSE [kind |-> "text", text |-> text]

\* The formatted value of a cell: a date entered as YYYY-MM-DD shows as such.
formatted_value(cell) ==
  IF cell.kind = "date"
    THEN Padded(cell.year, 4) \o <<"-">> \o Padded(cell.month, 2) \o <<"-">>
           \o Padded(cell.day, 2)
    ELSE cell.text

\* ws.col_values(1)
col_values_1(sheet) == [i \in 1..Len(sheet) |-> formatted_value(sheet[i][1])]

\* x in lst
list_contains(lst, x) == \E i \in 1..Len(lst) : lst[i] = x

\* ws.append_row(row, value_input_option="USER_ENTERED")
append_row(sheet, row) ==
  Append(sheet, <<user_entered(row[1]), row[2], row[3], row[4], row[5]>>)

\* The row update_daily_revenue builds.
daily_row(yesterday_str, yesterday_orders, qtd_orders, prior_yesterday_orders) ==
  LET yesterday_revenue       == sum_revenue(yesterday_orders).val
      qtd_revenue             == sum_revenue(qtd_orders).val
      prior_yesterday_revenue == sum_revenue(prior_yesterday_orders).val
      yoy == IF prior_yesterday_revenue.c > 0
               THEN yoy_change(yesterday_revenue, prior_yesterday_revenue)
               ELSE EmptyString
  IN  <<yesterday_str, float_of(yesterday_revenue), float_of(qtd_revenue),
        float_of(prior_yesterday_revenue), yoy>>

\* Mutant: the row is appended without looking at column 1.
update_daily_revenue_unchecked(sheet, ranges, yesterday_orders, qtd_orders, prior_yesterday_orders) ==
  append_row(sheet, daily_row(ranges.yesterday_date, yesterday_orders,
                              qtd_orders, prior_yesterday_orders))

\* update_daily_revenue: the worksheet after the call.
update_daily_revenue(sheet, ranges, yesterday_orders, qtd_orders, prior_yesterday_orders) ==
  LET date_col      == col_values_1(sheet)
      yesterday_str == ranges.yesterday_date
  IN  IF list_contains(date_col, yesterday_str) THEN sheet
      ELSE append_row(sheet, daily_row(yesterday_str, yesterday_orders,
                                       qtd_orders, prior_yesterday_orders))

HeaderRow ==
  << [kind |-> "text", text |-> <<"D", "a", "t", "e">>], [kind |-> "text", text |-> <<"R">>],
     [kind |-> "text", text |-> <<"Q">>], [kind |-> "text", text |-> <<"P">>],
     [kind |-> "text", text |-> <<"Y">>] >>

NoSheet == ws = <<>> /\ runs = 0

\* Years of the clock: leap (2024), common (2023, 2025), and a century
\* year that is not leap (2100) with the year after it.
YearMenu == {2023, 2024, 2025, 2100, 2101}

TimeMenu ==
  { [hour |-> 0, minute |-> 0, second |-> 0, microsecond |-> 0],
    [hour |-> 13, minute |-> 30, second |-> 15, microsecond |-> 500000],
    [hour |-> 23, minute |-> 59, second |-> 59, microsecond |-> 999999] }

datetime(y, m, d, t) ==
  [year |-> y, month |-> m, day |-> d, hour |-> t.hour, minute |-> t.minute,
   second |-> t.second, microsecond |-> t.microsecond]

Noon == [hour |-> 12, minute |-> 0, second |-> 0, microsecond |-> 0]

\* Reference dates given on the command line: the day after a leap day, the
\* first days of a quarter and of a year, and days inside a quarter.
ReferenceMenu ==
  { datetime(2024, 3, 1, Noon), datetime(2024, 4, 1, Noon),
    datetime(2025, 1, 1, Noon), datetime(2023, 8, 17, Noon),
    datetime(2025, 3, 1, Noon) }

NoClock == now_et = NoDatetime /\ reference_date = NoDatetime

NoArgs == orders = <<>> /\ item = NoItem /\ n = 0

Morning == [hour |-> 9, minute |-> 0, second |-> 0, microsecond |-> 0]

Evening == [hour |-> 21, minute |-> 30, second |-> 0, microsecond |-> 250000]

\* Clocks of the runs: twice on each of three days, and the day after a leap
\* day, on which get_date_ranges raises.
RunClockMenu ==
  { datetime(y, 10, 10, t) : y \in {2024}, t \in {Morning, Evening} }
    \cup { datetime(2025, 1, 1, t) : t \in {Morning, Evening} }
    \cup { datetime(2024, 3, 2, t) : t \in {Morning, Evening} }
    \cup { datetime(2024, 3, 1, Morning) }

Order10 == [id |-> <<"1">>, total_price |-> <<"1", "0", ".", "0", "0">>]

Order5 == [id |-> <<"2">>, total_price |-> <<"5", ".", "5", "0">>]

\* yesterday_orders, qtd_orders, prior_yesterday_orders of a run.
RunOrdersMenu ==
  { << <<>>, <<>>, <<>> >>,
    << <<Order10>>, <<Order10, Order5>>, <<>> >>,
    << <<Order10>>, <<Order10, Order5>>, <<Order5>> >>,
    << <<Order5>>, <<Order5>>, <<Order10, Order5>> >> }

IdleWorld == NoClock /\ NoHttp /\ NoSheet

(***************************************************************************)
(* Specifications: each draws the input of one function and applies it.    *)
(***************************************************************************)
InitSum ==
  /\ \E k \in 0..MaxOrders : orders \in [1..k -> PricedOrders]
  /\ item = NoItem
  /\ n = 0
  /\ call = "none"
  /\ ret = NoRet
  /\ IdleWorld

CallSumRevenue ==
  /\ call = "none"
  /\ call' = "sum_revenue"
  /\ ret' = sum_revenue(orders)
  /\ UNCHANGED <<orders, item, n, worldVars>>

NextSum == CallSumRevenue

SpecSum == InitSum /\ [][NextSum]_vars

InitClassify ==
  /\ orders = <<>>
  /\ item \in ClassifyInputs
  /\ n = 0
  /\ call = "none"
  /\ ret = NoRet
  /\ IdleWorld

CallClassify ==
  /\ call = "none"
  /\ call' = "classify_line_item"
  /\ ret' = classify_line_item(item)
  /\ UNCHANGED <<orders, item, n, worldVars>>

NextClassify == CallClassify

SpecClassify == InitClassify /\ [][NextClassify]_vars

InitLines ==
  /\ \E k \in 0..MaxLines : \E its \in [1..k -> LineItemMenu] :
       \/ orders = <<>> /\ k = 0
       \/ \E c \in {k \div 2, k} : orders = SplitOrders(its, c)
  /\ item = NoItem
  /\ n = 0
  /\ call = "none"
  /\ ret = NoRet
  /\ IdleWorld

CallCountUnits ==
  /\ call = "none"
  /\ call' = "count_units_by_category"
  /\ ret' = count_units_by_category(orders)
  /\ UNCHANGED <<orders, item, n, worldVars>>

NextUnits == CallCountUnits

SpecUnits == InitLines /\ [][NextUnits]_vars

CallTopProducts ==
  /\ call = "none"
  /\ LET sorted == sorted_products(orders)
     IN  \E k \in (0 - 1)..MaxN :
           /\ n' = k
           /\ call' = "top_products"
           /\ ret' = top_n(sorted, k)
  /\ UNCHANGED <<orders, item, worldVars>>

NextTop == CallTopProducts

SpecTop == InitLines /\ [][NextTop]_vars

InitMonthly ==
  /\ \E k \in 0..MaxDated : orders \in [1..k -> DatedOrders]
  /\ item = NoItem
  /\ n = 0
  /\ call = "none"
  /\ ret = NoRet
  /\ IdleWorld

CallMonthlyRevenue ==
  /\ call = "none"
  /\ call' = "monthly_revenue"
  /\ ret' = monthly_revenue(orders)
  /\ UNCHANGED <<orders, item, n, worldVars>>

NextMonthly == CallMonthlyRevenue

SpecMonthly == InitMonthly /\ [][NextMonthly]_vars

InitDates ==
  /\ \E y \in YearMenu : \E m \in 1..12 : \E d \in 1..DaysInMonth(y, m) :
       \E t \in TimeMenu : now_et = datetime(y, m, d, t)
  /\ reference_date \in {NoDatetime} \cup ReferenceMenu
  /\ NoArgs
  /\ NoHttp
  /\ NoSheet
  /\ call = "none"
  /\ ret = NoRet

CallGetDateRanges ==
  /\ call = "none"
  /\ call' = "get_date_ranges"
  /\ ret' = get_date_ranges(reference_date, now_et)
  /\ UNCHANGED <<argVars, clockVars, httpVars, sheetVars>>

CallGetDateRangesDashboard ==
  /\ call = "none"
  /\ call' = "get_date_ranges_dashboard"
  /\ ret' = get_date_ranges_dashboard(now_et)
  /\ UNCHANGED <<argVars, clockVars, httpVars, sheetVars>>

NextDates == CallGetDateRanges \/ CallGetDateRangesDashboard

SpecDates == InitDates /\ [][NextDates]_vars

InitFetch ==
  /\ \E k \in 1..MaxPages : \E bodies \in [1..k -> PageBodyMenu] :
       \E full \in BOOLEAN : server = [pages |-> bodies, full |-> full]
  /\ pc = "idle"
  /\ url = <<>>
  /\ attempt = 0
  /\ sent = 0
  /\ slept = <<>>
  /\ resp = [raised |-> FALSE, val |-> NoResponse]
  /\ all_orders = <<>>
  /\ page = 0
  /\ NoArgs
  /\ NoClock
  /\ NoSheet
  /\ call = "none"
  /\ ret = NoRet

NextFetch ==
  \/ CallFetchAllOrders
  \/ Attempt429
  \/ AttemptError
  \/ AttemptOk
  \/ ContinueFetch

SpecFetch == InitFetch /\ [][NextFetch]_vars

InitSheet ==
  /\ ws = <<HeaderRow>>
  /\ runs = 0
  /\ now_et \in RunClockMenu
  /\ reference_date = NoDatetime
  /\ NoArgs
  /\ NoHttp
  /\ call = "none"
  /\ ret = NoRet

\* One run of the dashboard update as far as the Daily Revenue Tracker: the
\* date ranges of the clock, then update_daily_revenue on the orders fetched.
CallUpdateDailyRevenue ==
  /\ runs < MaxRuns
  /\ \E clock \in RunClockMenu : \E o \in RunOrdersMenu :
       LET ranges == get_date_ranges_dashboard(clock)
       IN  /\ now_et' = clock
           /\ runs' = runs + 1
           /\ IF ranges.raised
                THEN /\ call' = "get_date_ranges_dashboard"
                     /\ ret' = [raised |-> TRUE, val |-> <<>>]
                     /\ ws' = ws
                ELSE /\ call' = "update_daily_revenue"
                     /\ ret' = [raised |-> FALSE, val |-> PyNone]
                     /\ ws' = update_daily_revenue(ws, ranges.val, o[1], o[2], o[3])
  /\ UNCHANGED <<reference_date, argVars, httpVars>>

NextSheet == CallUpdateDailyRevenue

SpecSheet == InitSheet /\ [][NextSheet]_vars

(***************************************************************************)
(* Claims.                                                                 *)
(***************************************************************************)
\* The value of a Decimal of at most two fraction digits, in hundredths.
Hundredths(d) == d.c * Pow10(d.e + 2)

Least(S) == CHOOSE i \in S : \A j \in S : i <= j

\* What an order is to contribute to a revenue total: its total_price when
\* there is one and it parses, zero otherwise.
PriceContribution(o) ==
  IF "total_price" \notin DOMAIN o THEN 0
  ELSE IF Decimal(str(o.total_price)).raised THEN 0
  ELSE Hundredths(Decimal(str(o.total_price)).val)

RECURSIVE SumContributions(_)
SumContributions(os) ==
  IF os = <<>> THEN 0 ELSE PriceContribution(Head(os)) + SumContributions(Tail(os))

ScenarioOrders ==
  << [total_price |-> <<"1", "0", ".", "0", "0">>],
     [total_price |-> <<"i", "n", "v", "a", "l", "i", "d">>],
     [total_price |-> <<"5", ".", "5", "0">>] >>

\* C1: sum_revenue never fails and returns the exact sum of the total_price
\* of the orders whose total_price parses; an order whose total_price is
\* missing or unparsable adds zero ("10.00", "invalid", "5.50" give 15.50).
C1_SumRevenueSkipsBadPrices ==
  call = "sum_revenue" =>
    /\ ~ret.raised
    /\ Hundredths(ret.val) = SumContributions(orders)
    /\ orders = ScenarioOrders => ret.val = [c |-> 1550, e |-> 0 - 2]

C1_Witness ==
  /\ call = "sum_revenue"
  /\ orders = ScenarioOrders
  /\ ret = [raised |-> FALSE, val |-> [c |-> 1550, e |-> 0 - 2]]

\* C2: classify_line_item applies its rules in strict precedence: an exact
\* match of the trimmed, lower-cased product_type against a category name,
\* then the first keyword of the table found in product_type, then (only
\* when product_type matched nothing) the first keyword of the table found
\* in the title, else None.
C2_ClassifyPrecedence ==
  call = "classify_line_item" /\ ~ret.raised =>
    LET pt     == str_lower(str_strip(or_empty(Get(item, "product_type", PyNone))))
        ti     == str_lower(or_empty(Get(item, "title", PyNone)))
        exact  == {c \in CategorySet : str_lower(c) = pt}
        ptHits == KeywordHits(pt)
        tiHits == KeywordHits(ti)
    IN  /\ exact # {} => ret.val \in exact
        /\ exact = {} /\ ptHits # {} =>
             ret.val = CATEGORY_KEYWORDS[Least(ptHits)].cat
        /\ exact = {} /\ ptHits = {} /\ tiHits # {} =>
             ret.val = CATEGORY_KEYWORDS[Least(tiHits)].cat
        /\ exact = {} /\ ptHits = {} /\ tiHits = {} => ret.val = PyNone

\* product_type names Books exactly while the title holds the Vinyl keyword.
C2_Witness ==
  /\ call = "classify_line_item"
  /\ item = [product_type |-> Books,
             title |-> <<"A", "b", "b", "e", "y", " ", "R", "o", "a", "d", " ",
                         "L", "P">>]
  /\ ret = [raised |-> FALSE, val |-> Books]

Lines == line_items_of(orders, 1)

TitleOf(it) == Get(it, "title", Unknown)

Titles == {TitleOf(Lines[i]) : i \in 1..Len(Lines)}

\* Position in the input of the first line item of title t.
FirstSeen(t) == Least({i \in 1..Len(Lines) : TitleOf(Lines[i]) = t})

QtyOf(it) == IF "quantity" \in DOMAIN it THEN it.quantity ELSE 0

RevenueOf(it) ==
  IF "price" \in DOMAIN it
    THEN Hundredths(Decimal(str(it.price)).val) * QtyOf(it)
    ELSE 0

RECURSIVE UnitsOfTitle(_, _)
UnitsOfTitle(its, t) ==
  IF its = <<>> THEN 0
  ELSE (IF TitleOf(Head(its)) = t THEN QtyOf(Head(its)) ELSE 0)
         + UnitsOfTitle(Tail(its), t)

RECURSIVE RevenueOfTitle(_, _)
RevenueOfTitle(its, t) ==
  IF its = <<>> THEN 0
  ELSE (IF TitleOf(Head(its)) = t THEN RevenueOf(Head(its)) ELSE 0)
         + RevenueOfTitle(Tail(its), t)

Returned(f) == call = f /\ ~ret.raised

\* C3: the sequence top_products returns is sorted non-increasing by units,
\* and aggregates of equal units are in the order in which their titles
\* were first met in the input.
C3_TopProductsSortedStable ==
  Returned("top_products") =>
    \A i, j \in 1..Len(ret.val) :
      i < j =>
        /\ ret.val[i].units >= ret.val[j].units
        /\ ret.val[i].units = ret.val[j].units =>
             FirstSeen(ret.val[i].title) < FirstSeen(ret.val[j].title)

\* Two aggregates tie, and the sort moved them ahead of the title met first.
C3_Witness ==
  /\ Returned("top_products")
  /\ Len(ret.val) = 2
  /\ ret.val[1].units = ret.val[2].units
  /\ FirstSeen(ret.val[1].title) > 1
  /\ FirstSeen(ret.val[1].title) < FirstSeen(ret.val[2].title)

MinOf(a, b) == IF a < b THEN a ELSE b

MaxOf(a, b) == IF a > b THEN a ELSE b

\* C4 as amended: for n >= 0, top_products returns the first n aggregates of
\* the ranking when there are at least n distinct titles and all of them
\* when there are fewer, so never more than n; for n < 0 it returns the
\* ranking without its last -n aggregates.
C4_TopProductsTruncates ==
  Returned("top_products") =>
    LET ranking == top_products(orders, Cardinality(Titles)).val
    IN  /\ Len(ranking) = Cardinality(Titles)
        /\ ret.val = SubSeq(ranking, 1, Len(ret.val))
        /\ n >= 0 => Len(ret.val) = MinOf(n, Cardinality(Titles)) /\ Len(ret.val) <= n
        /\ n < 0 => Len(ret.val) = MaxOf(Cardinality(Titles) + n, 0)

\* Three distinct titles, of which the first two of the ranking are returned.
C4_Witness ==
  /\ Returned("top_products")
  /\ n = 2
  /\ Cardinality(Titles) = 3
  /\ Len(ret.val) = 2

\* C4 as claimed, for every n: never more than n entries (none for an n
\* below zero), the first n of the ranking or all of it.
C4_AsClaimed ==
  Returned("top_products") =>
    /\ Len(ret.val) <= MaxOf(n, 0)
    /\ Len(ret.val) = MinOf(MaxOf(n, 0), Cardinality(Titles))

\* C5: top_products groups line items by exact title: distinct titles give
\* distinct aggregates, one per title (all of them present when n does not
\* truncate), each with the summed quantities of the line items of that
\* title as units and the sum of their own price times quantity as revenue.
C5_TopProductsGroupsByTitle ==
  Returned("top_products") =>
    /\ \A i, j \in 1..Len(ret.val) :
         i # j => ret.val[i].title # ret.val[j].title
    /\ \A i \in 1..Len(ret.val) :
         /\ ret.val[i].title \in Titles
         /\ ret.val[i].units = UnitsOfTitle(Lines, ret.val[i].title)
         /\ Hundredths(ret.val[i].revenue) = RevenueOfTitle(Lines, ret.val[i].title)
    /\ n >= Cardinality(Titles) =>
         {ret.val[i].title : i \in 1..Len(ret.val)} = Titles

\* "LP" sold once at 20.00 and twice at 5.5, next to a separate "lp".
C5_Witness ==
  /\ Returned("top_products")
  /\ \E i \in 1..Len(ret.val) :
       /\ ret.val[i].title = LP
       /\ ret.val[i].units = 3
       /\ ret.val[i].revenue = [c |-> 3100, e |-> 0 - 2]
  /\ \E i \in 1..Len(ret.val) : ret.val[i].title = <<"l", "p">>

CategoryOrOther(it) ==
  IF classify_line_item(it).val = PyNone THEN Other
  ELSE classify_line_item(it).val

\* C6: the category of an aggregate is the classification of the first line
\* item processed with its title ("Other" when that one is unclassified),
\* whatever later line items of the title classify as.
C6_CategoryOfFirstLineItem ==
  Returned("top_products") =>
    \A i \in 1..Len(ret.val) :
      ret.val[i].category = CategoryOrOther(Lines[FirstSeen(ret.val[i].title)])

\* A title first met as Vinyl keeps Vinyl although met again as Books.
C6_Witness ==
  /\ Returned("top_products")
  /\ \E i \in 1..Len(ret.val) :
       /\ ret.val[i].category = Vinyl
       /\ \E k \in 1..Len(Lines) :
            /\ TitleOf(Lines[k]) = ret.val[i].title
            /\ CategoryOrOther(Lines[k]) = Books

\* C7: the mapping count_units_by_category returns has exactly the four
\* fixed categories as keys, each with a value of at least zero.
C7_AllCategoriesPresent ==
  Returned("count_units_by_category") =>
    /\ DOMAIN ret.val = {Vinyl, Books, Posters, Tees}
    /\ \A c \in DOMAIN ret.val : ret.val[c] >= 0

\* Orders without any line item: every category is there, at zero.
C7_Witness ==
  /\ Returned("count_units_by_category")
  /\ orders # <<>>
  /\ Lines = <<>>
  /\ \A c \in {Vinyl, Books, Posters, Tees} : c \in DOMAIN ret.val /\ ret.val[c] = 0

RECURSIVE TotalQuantity(_)
TotalQuantity(its) ==
  IF its = <<>> THEN 0 ELSE QtyOf(Head(its)) + TotalQuantity(Tail(its))

RECURSIVE SumCounts(_, _)
SumCounts(counts, cats) ==
  IF cats = <<>> THEN 0
  ELSE (IF Head(cats) \in DOMAIN counts THEN counts[Head(cats)] ELSE 0)
         + SumCounts(counts, Tail(cats))

Unclassified(it) == classify_line_item(it).val = PyNone

\* C8 as amended: the counts sum to at most the total quantity of all line
\* items, and to strictly less whenever an unclassified line item has a
\* quantity above zero.
C8_CountsBelowTotal ==
  Returned("count_units_by_category") =>
    /\ SumCounts(ret.val, CATEGORIES) <= TotalQuantity(Lines)
    /\ (\E i \in 1..Len(Lines) : Unclassified(Lines[i]) /\ QtyOf(Lines[i]) > 0)
         => SumCounts(ret.val, CATEGORIES) < TotalQuantity(Lines)

\* A classified and an unclassified line item, both of positive quantity.
C8_Witness ==
  /\ Returned("count_units_by_category")
  /\ \E i \in 1..Len(Lines) : Unclassified(Lines[i]) /\ QtyOf(Lines[i]) > 0
  /\ \E i \in 1..Len(Lines) : ~Unclassified(Lines[i]) /\ QtyOf(Lines[i]) > 0
  /\ 0 < SumCounts(ret.val, CATEGORIES)
  /\ SumCounts(ret.val, CATEGORIES) < TotalQuantity(Lines)

\* C8 as claimed: strictly less whenever any line item is unclassified.
C8_AsClaimed ==
  Returned("count_units_by_category") =>
    /\ SumCounts(ret.val, CATEGORIES) <= TotalQuantity(Lines)
    /\ (\E i \in 1..Len(Lines) : Unclassified(Lines[i]))
         => SumCounts(ret.val, CATEGORIES) < TotalQuantity(Lines)

\* The month an order's created_at leaves in characters 5:7, when int()
\* accepts them; 0 - 1 when the order is skipped.
MonthRead(o) ==
  IF "created_at" \notin DOMAIN o \/ Get(o, "created_at", PyNone) = PyNone
    THEN 0 - 1
  ELSE IF PyInt(str_slice(o.created_at, 5, 7)).raised THEN 0 - 1
  ELSE PyInt(str_slice(o.created_at, 5, 7)).val

PriceParses(o) == ~Decimal(str(Get(o, "total_price", <<"0">>))).raised

\* C9 as claimed: every key of the mapping monthly_revenue returns is an
\* integer in 1..12, and a month is a key only if some order added its
\* total_price to it.
C9_AsClaimed ==
  Returned("monthly_revenue") =>
    \A k \in DOMAIN ret.val :
      /\ k \in 1..12
      /\ \E i \in 1..Len(orders) : MonthRead(orders[i]) = k /\ PriceParses(orders[i])

\* A timestamp YYYY-MM-DD... with MM in 01..12.
WellFormedTimestamp(c) ==
  /\ c # PyNone
  /\ Len(c) >= 10
  /\ AllDigits(SubSeq(c, 1, 4)) /\ c[5] = "-"
  /\ AllDigits(SubSeq(c, 6, 7)) /\ c[8] = "-"
  /\ AllDigits(SubSeq(c, 9, 10))
  /\ DigitsToNat(SubSeq(c, 6, 7)) \in 1..12

WellFormedOrder(o) ==
  "created_at" \in DOMAIN o /\ WellFormedTimestamp(o.created_at)

MonthOf(o) == DigitsToNat(SubSeq(o.created_at, 6, 7))

RECURSIVE MonthContributions(_, _)
MonthContributions(os, k) ==
  IF os = <<>> THEN 0
  ELSE (IF WellFormedOrder(Head(os)) /\ MonthOf(Head(os)) = k
          THEN PriceContribution(Head(os)) ELSE 0)
         + MonthContributions(Tail(os), k)

\* C10 as claimed: monthly_revenue completes; an order whose created_at is
\* missing or malformed creates no key and adds to no bucket; the bucket of
\* a month holds the total_price of the orders with a well-formed timestamp
\* of that month.
C10_AsClaimed ==
  call = "monthly_revenue" =>
    /\ ~ret.raised
    /\ DOMAIN ret.val =
         {MonthOf(orders[i]) : i \in {j \in 1..Len(orders) : WellFormedOrder(orders[j])}}
    /\ \A k \in DOMAIN ret.val :
         Hundredths(ret.val[k]) = MonthContributions(orders, k)

\* C11 as claimed: top_products completes and returns a result whatever the
\* price and quantity fields of the line items hold.
C11_AsClaimed == call = "top_products" => ~ret.raised

\* C12 as claimed: classify_line_item never raises and returns a fixed
\* category or None, whatever product_type and title hold.
C12_AsClaimed ==
  call = "classify_line_item" =>
    ~ret.raised /\ ret.val \in CategorySet \cup {PyNone}

IndexPermutations(k) ==
  {f \in [1..k -> 1..k] : \A i, j \in 1..k : f[i] = f[j] => i = j}

Permuted(os, f) == [i \in 1..Len(os) |-> os[f[i]]]

\* Every total_price parses (an absent one defaults to "0") and is >= 0.
NonNegativePrices(os) ==
  \A i \in 1..Len(os) :
    LET d == Decimal(str(Get(os[i], "total_price", <<"0">>)))
    IN  ~d.raised /\ d.val.c >= 0

\* C13: for orders of non-negative parseable prices sum_revenue returns the
\* same value for every permutation of the list, the value is non-negative,
\* and the empty list gives exactly 0.00.
C13_SumRevenueOrderFree ==
  call = "sum_revenue" /\ NonNegativePrices(orders) =>
    /\ ~ret.raised
    /\ ret.val.c >= 0
    /\ \A f \in IndexPermutations(Len(orders)) : sum_revenue(Permuted(orders, f)) = ret
    /\ orders = <<>> => ret.val = [c |-> 0, e |-> 0 - 2]

\* Three orders of pairwise different non-negative prices.
C13_Witness ==
  /\ call = "sum_revenue"
  /\ Len(orders) = 3
  /\ NonNegativePrices(orders)
  /\ \A i, j \in 1..3 : i # j => orders[i] # orders[j]
  /\ ret.val.c > 0

\* The day get_date_ranges takes as today.
Today ==
  replace_time_zero(IF call = "get_date_ranges" /\ reference_date # NoDatetime
                      THEN reference_date ELSE now_et)

DateCalls == {"get_date_ranges", "get_date_ranges_dashboard"}

\* Yesterday is February 29: today is March 1 of a leap year.
YesterdayIsLeapDay == Today.month = 3 /\ Today.day = 1 /\ IsLeap(Today.year)

SameButYear(prior, current) == prior = [current EXCEPT !.year = current.year - 1]

\* C15: get_date_ranges fails exactly when yesterday is February 29; for
\* every other date each prior-year bound is the current bound with only the
\* year replaced by the year before (same month, day and time).
C15_PriorYearReplacesYearOnly ==
  call \in DateCalls =>
    /\ ret.raised <=> YesterdayIsLeapDay
    /\ call = "get_date_ranges" /\ ~ret.raised =>
         /\ SameButYear(ret.val.prior_qtd_start, ret.val.qtd_start)
         /\ SameButYear(ret.val.prior_qtd_end, ret.val.qtd_end)
    /\ call = "get_date_ranges_dashboard" /\ ~ret.raised =>
         /\ SameButYear(ret.val.prior_yesterday_start, ret.val.yesterday_start)
         /\ SameButYear(ret.val.prior_yesterday_end, ret.val.yesterday_end)

\* The call on the day after a leap day fails.
C15_Witness == call \in DateCalls /\ YesterdayIsLeapDay /\ ret.raised

DatetimeTuple(dt) ==
  <<dt.year, dt.month, dt.day, dt.hour, dt.minute, dt.second, dt.microsecond>>

RECURSIVE TupleLE(_, _)
TupleLE(a, b) ==
  \/ a = <<>>
  \/ Head(a) < Head(b)
  \/ Head(a) = Head(b) /\ TupleLE(Tail(a), Tail(b))

NotLater(a, b) == TupleLE(DatetimeTuple(a), DatetimeTuple(b))

\* The first month of the calendar quarter of month m.
QuarterStart(m) == 3 * ((m - 1) \div 3) + 1

\* C18 as claimed: whenever get_date_ranges returns, qtd_start is midnight of
\* the first day of the calendar quarter containing today, qtd_end is the
\* last second of yesterday, and qtd_start is not later than qtd_end.
C18_AsClaimed ==
  call \in DateCalls /\ ~ret.raised =>
    /\ ret.val.qtd_start =
         [Today EXCEPT !.month = QuarterStart(Today.month), !.day = 1]
    /\ ret.val.qtd_end =
         [ret.val.yesterday_start EXCEPT
            !.hour = 23, !.minute = 59, !.second = 59]
    /\ NotLater(ret.val.qtd_start, ret.val.qtd_end)

\* The i-th sleep of a call follows attempt i - 1.
RetryWaits ==
  \A i \in 1..Len(slept) :
    /\ slept[i].after = "429" =>
         slept[i].wait \in {2000, 1000 * Pow2(i - 1)}
    /\ slept[i].after = "error" => slept[i].wait = 1000 * Pow2(i - 1)
    /\ slept[i].after = "ok" =>
         i = Len(slept) /\ slept[i].wait = RATE_LIMIT_DELAY

\* What holds of every call of shopify_get and shopify_get_url: at most
\* MAX_RETRIES requests, the waits between them, and the value returned when
\* the call returns one.
RetryLoopContract ==
  /\ sent <= MAX_RETRIES
  /\ RetryWaits
  /\ pc = "returned" /\ ~resp.raised =>
       IF resp.val = NoResponse
         THEN sent = MAX_RETRIES /\ \A i \in 1..Len(slept) : slept[i].after # "ok"
         ELSE /\ resp.val.status_code = 200
              /\ slept[Len(slept)].after = "ok"
              /\ \A i \in 1..(Len(slept) - 1) : slept[i].after # "ok"

\* C14 as claimed: whatever the server answers, a call of shopify_get or
\* shopify_get_url issues at most MAX_RETRIES requests, waits as described
\* between them, and ends by returning the first successful response or None.
C14_AsClaimed ==
  /\ RetryLoopContract
  /\ pc = "returned" => ~resp.raised

RECURSIVE ConcatOrders(_, _)
ConcatOrders(srv, j) ==
  IF j = 0 THEN <<>>
  ELSE ConcatOrders(srv, j - 1) \o Get(srv.pages[j], "orders", <<>>)

\* Pages fetch_all_orders has received when it ends: page counts the page
\* asked for last, which was not received when the fetch returned None.
PagesReceived == IF resp.val = NoResponse THEN page - 1 ELSE page

\* C17: each page after the first is asked for at the URL the page before it
\* names as next; a call of fetch_all_orders that returns gives the orders
\* of the pages it received, concatenated in page order, and it ends on a
\* page without a next link or on the first fetch that returns None.
C17_FetchAllOrdersConcatenates ==
  /\ pc \in {"shopify_get", "shopify_get_url"} =>
       /\ page <= Len(server.pages)
       /\ url = PageUrl(page)
       /\ all_orders = ConcatOrders(server, page - 1)
  /\ call = "fetch_all_orders" /\ pc = "done" /\ ~ret.raised =>
       /\ PagesReceived <= Len(server.pages)
       /\ ret.val = ConcatOrders(server, PagesReceived)
       /\ resp.val # NoResponse => PagesReceived = Len(server.pages)

\* The fetch of the second page returned None after the first page was
\* received from a server that names the previous page in its Link headers.
C17_Witness ==
  /\ call = "fetch_all_orders" /\ pc = "done" /\ ~ret.raised
  /\ server.full /\ Len(server.pages) = 2
  /\ page = 2 /\ resp.val = NoResponse
  /\ ret.val # <<>>

\* Rows of a sheet whose first column shows the text d.
RowsDated(sheet, d) == {i \in 1..Len(sheet) : col_values_1(sheet)[i] = d}

\* The date string of the day before the clock's day.
YesterdayStr(clock) == strftime_Ymd(minus_day(replace_time_zero(clock)))

\* C16: a run of update_daily_revenue on a sheet whose column 1 already shows
\* yesterday's date string leaves the sheet as it was, and after every run
\* the sheet holds exactly one row for that date, however many runs for the
\* same day came before.
C16_IdempotentPerDate ==
  [][call' = "update_daily_revenue" =>
       /\ RowsDated(ws, YesterdayStr(now_et')) # {} => ws' = ws
       /\ Cardinality(RowsDated(ws', YesterdayStr(now_et'))) = 1]_vars

\* Three runs for the same day have left the header and one row.
C16_Witness ==
  /\ call = "update_daily_revenue"
  /\ runs = 3
  /\ Len(ws) = 2
  /\ RowsDated(ws, YesterdayStr(now_et)) = {2}

====
